---- MODULE Spec2Model ----
(***************************************************************************)
(* Model of waybar-weather-openweathermap.py: the module top level (config *)
(* load, one HTTP GET, JSON decode), the two formatters and main(), which  *)
(* renders the text and the tooltip and writes them once to stdout.        *)
(*                                                                         *)
(* Strings are sequences of tokens (one-character strings for everything   *)
(* the code computes character by character, longer literals for the fixed *)
(* parts of an f-string).  A multi-line string is a sequence of lines,     *)
(* each line standing for its text followed by "\n".                       *)
(* Floats are fixed point: temperatures in 1/100 K, wind degrees in 1/4    *)
(* degree, wind speeds in 1/10 m/s.                                        *)
(***************************************************************************)
EXTENDS Integers, Sequences, FiniteSets, TLC

VARIABLES
    pc,          \* position in the script
    err,         \* kind of the unhandled exception, "" while none
    environ,     \* os.environ
    tz,          \* the process's local timezone, seconds east of UTC
    config_file, \* the joined path
    fh,          \* what open(config_file) returned
    config,      \* tomllib.load(t)
    params,      \* the query parameters
    requests,    \* number of HTTP GETs issued
    response,    \* what requests.get returned
    x,           \* response.json(), mutated in place by main
    icons,       \* config["icons"]
    text,        \* main's local
    tooltip,     \* main's local
    i,           \* loop index of the running for loop
    stdout,      \* the writes made to sys.stdout
    fdeg,        \* formatter harness: argument of format_wind_direction
    ftemp,       \* formatter harness: argument of format_temp
    fwind,       \* formatter harness: result of format_wind_direction
    fwind360,    \* formatter harness: result for the argument plus 360
    fout         \* formatter harness: result of format_temp

vars == <<pc, err, environ, tz, config_file, fh, config, params, requests,
          response, x, icons, text, tooltip, i, stdout,
          fdeg, ftemp, fwind, fwind360, fout>>

progVars == <<pc, err, environ, tz, config_file, fh, config, params, requests,
              response, x, icons, text, tooltip, i, stdout>>

fmtVars == <<fdeg, ftemp, fwind, fwind360, fout>>

(***************************************************************************)
(* Bounds of the model.                                                    *)
(***************************************************************************)
MaxHourly == 16
MaxDaily == 5
MaxAlerts == 2
MaxTurn == 1
MaxCelsius == 110

(***************************************************************************)
(* Python built-ins used by the script.                                    *)
(***************************************************************************)
None == [none |-> TRUE]

HasKey(d, k) == k \in DOMAIN d

\* d[k] = v on a dict: adds the key or overwrites it
SetItem(d, k, v) == [f \in (DOMAIN d) \cup {k} |-> IF f = k THEN v ELSE d[f]]

Digit(n) == <<"0", "1", "2", "3", "4", "5", "6", "7", "8", "9">>[n + 1]

RECURSIVE NatStr(_)
NatStr(n) == IF n < 10 THEN <<Digit(n)>>
             ELSE NatStr(n \div 10) \o <<Digit(n % 10)>>

\* str(n) of an int
str(n) == IF n < 0 THEN <<"-">> \o NatStr(-n) ELSE NatStr(n)

\* int(a / b) of a float a/b, b > 0: truncation toward zero
int(a, b) == IF a >= 0 THEN a \div b ELSE -((-a) \div b)

\* round(w / 10) of a non-negative float: halves go to the even neighbour
round(w) ==
    LET q == w \div 10
        r == w % 10
    IN  IF r < 5 THEN q
        ELSE IF r > 5 THEN q + 1
        ELSE IF q % 2 = 0 THEN q ELSE q + 1

Spaces(n) == [k \in 1..n |-> " "]

Max(a, b) == IF a >= b THEN a ELSE b

\* s.ljust(w), also the format spec " <w"
ljust(s, w) == s \o Spaces(Max(0, w - Len(s)))

\* the format spec " ^w": the odd space of the padding goes to the right
center(s, w) ==
    LET pad == Max(0, w - Len(s))
    IN  Spaces(pad \div 2) \o s \o Spaces(pad - pad \div 2)

Pad2(n) == <<Digit(n \div 10), Digit(n % 10)>>

\* time.localtime(t): the broken-down local time
localtime(t) ==
    LET l == t + tz
    IN  [hour |-> (l % 86400) \div 3600,
         min  |-> (l % 3600) \div 60,
         sec  |-> l % 60,
         wday |-> ((l \div 86400) + 3) % 7]

Weekday(n) == <<"Mon", "Tue", "Wed", "Thu", "Fri", "Sat", "Sun">>[n + 1]

\* time.strftime("%T", lt)
strftime_T(lt) == Pad2(lt.hour) \o <<":">> \o Pad2(lt.min) \o <<":">> \o Pad2(lt.sec)

\* time.strftime("%H:%M", lt)
strftime_HM(lt) == Pad2(lt.hour) \o <<":">> \o Pad2(lt.min)

\* time.strftime("%a", lt)
strftime_a(lt) == <<Weekday(lt.wday)>>

\* time.strftime("%H:%M %a", lt)
strftime_HMa(lt) == strftime_HM(lt) \o <<" ">> \o strftime_a(lt)

(***************************************************************************)
(* The formatters.                                                         *)
(***************************************************************************)
cardinal ==
    << <<"N">>, <<"N", "N", "E">>, <<"N", "E">>, <<"E", "N", "E">>,
       <<"E">>, <<"E", "S", "E">>, <<"S", "E">>, <<"S", "S", "E">>,
       <<"S">>, <<"S", "S", "W">>, <<"S", "W">>, <<"W", "S", "W">>,
       <<"W">>, <<"W", "N", "W">>, <<"N", "W">>, <<"N", "N", "W">> >>

\* deg4 is the angle in quarter degrees: deg / 22.5 + 0.5 = (deg4 + 45) / 90
format_wind_direction(deg4) == cardinal[(int(deg4 + 45, 90) % 16) + 1]

\* the same with the quotient floored instead of truncated
format_temp_floor(k100) == ljust(str((k100 - 27315) \div 100) \o <<"°">>, 4)

\* k100 is the temperature in 1/100 K
format_temp(k100) == ljust(str(int(k100 - 27315, 100)) \o <<"°">>, 4)

(***************************************************************************)
(* The inputs of a run: the environment, the config file on disk and the   *)
(* answer of the weather service.                                          *)
(***************************************************************************)
Environs ==
    { ("HOME" :> "/home/u"),
      ("HOME" :> "/home/u") @@ ("XDG_CONFIG_HOME" :> "/home/u/.config") }

TimeZones == {0 - 18000, 3600}

IconsTable == ("01d" :> "<sun>") @@ ("10d" :> "<rain>") @@ ("04n" :> "<cloud>")

FullConfig ==
    [general  |-> [apikey |-> "0123abcd", lang |-> "en"],
     location |-> [lat |-> "50.11", lon |-> "8.68"],
     icons    |-> IconsTable]

\* TOML documents that parse
Configs ==
    { FullConfig,
      [location |-> FullConfig.location, icons |-> IconsTable],
      [general |-> [apikey |-> "0123abcd"], location |-> FullConfig.location,
       icons |-> IconsTable],
      [general |-> FullConfig.general, icons |-> IconsTable],
      [general |-> FullConfig.general, location |-> [lat |-> "50.11"],
       icons |-> IconsTable],
      [general |-> FullConfig.general, location |-> FullConfig.location] }

\* what open() and tomllib.load() find at config_file
Files ==
    { [kind |-> "missing"], [kind |-> "garbage"] }
    \cup { [kind |-> "toml", doc |-> c] : c \in Configs }

Description(code) ==
    IF code = "01d" THEN "clear sky"
    ELSE IF code = "10d" THEN "light rain"
    ELSE IF code = "04n" THEN "broken clouds"
    ELSE "mist"

\* the "weather" list of a record: one condition, or empty
Weather(code, flaw) ==
    IF flaw = "weather" THEN <<>>
    ELSE << [icon |-> IF flaw = "icon" THEN "50n" ELSE code,
             description |-> Description(IF flaw = "icon" THEN "50n" ELSE code)] >>

\* a record that already carries the keys main writes
Stale(r, on) ==
    IF on THEN SetItem(SetItem(SetItem(r, "icon", "13d"), "desc", "snow"),
                       "timestamp", <<"n", "/", "a">>)
    ELSE r

CurrentRecord(flaw, stale) ==
    Stale([dt |-> 1700000000 + 1234,
           temp |-> 27315 + 1250,
           feels_like |-> 27315 - 50,
           humidity |-> 81,
           uvi |-> 2,
           wind_speed |-> 45,
           wind_deg |-> 4 * 350,
           weather |-> Weather("01d", flaw)], stale)

\* j is the index of the record in the list, from 0
HourRecord(j, flaw, stale) ==
    Stale([dt |-> 1700000000 + 3600 * j,
           temp |-> 27315 + 1240 - 275 * j,
           humidity |-> 60 + j,
           wind_speed |-> 10 * j + 5,
           wind_deg |-> 4 * 20 * j,
           weather |-> Weather(IF j % 2 = 0 THEN "10d" ELSE "04n", flaw)], stale)

DayRecord(j, flaw, stale) ==
    Stale([dt |-> 1700000000 + 86400 * j,
           temp |-> [min |-> 27315 - 30 - 360 * j, max |-> 27315 + 480 + 100 * j],
           humidity |-> 70 + j,
           uvi |-> j,
           wind_speed |-> 25 + 10 * j,
           wind_deg |-> 4 * 95 * j - 45,
           weather |-> Weather(IF j % 2 = 0 THEN "01d" ELSE "10d", flaw)], stale)

AlertRecord(k) ==
    [sender_name |-> "DWD",
     event |-> "wind gusts",
     start |-> 1700000000 + 7200 * k,
     end   |-> 1700000000 + 7200 * k + 40000,
     description |-> IF k = 1 THEN "There is a risk of wind gusts." ELSE "Frost."]

\* flaw: which record, if any, departs from a well-formed answer
Flaws(hl, dl) ==
    { [at |-> "none"] }
    \cup { [at |-> "current", kind |-> k] : k \in {"icon", "weather"} }
    \cup { [at |-> "hourly", idx |-> j, kind |-> k] : j \in 0..(hl - 1), k \in {"icon", "weather"} }
    \cup { [at |-> "daily", idx |-> j, kind |-> k] : j \in 0..(dl - 1), k \in {"icon", "weather"} }

FlawAt(f, at, j) ==
    IF f.at = at /\ (at = "current" \/ f.idx = j) THEN f.kind ELSE "none"

\* the one-call answer without alerts
Snapshot(hl, dl, f, stale) ==
    [lat |-> "50.11",
     lon |-> "8.68",
     current |-> CurrentRecord(FlawAt(f, "current", 0), stale),
     hourly  |-> [n \in 1..hl |-> HourRecord(n - 1, FlawAt(f, "hourly", n - 1), stale)],
     daily   |-> [n \in 1..dl |-> DayRecord(n - 1, FlawAt(f, "daily", n - 1), stale)]]

WithAlerts(s, n) == SetItem(s, "alerts", [k \in 1..n |-> AlertRecord(k)])

\* answers that decode as JSON
Snapshots ==
    \* well formed, with and without an alerts key
    { Snapshot(hl, dl, [at |-> "none"], FALSE) : hl \in 0..MaxHourly, dl \in 0..MaxDaily }
    \cup { WithAlerts(Snapshot(hl, dl, [at |-> "none"], FALSE), n) :
             hl \in 0..MaxHourly, dl \in 0..MaxDaily, n \in 0..MaxAlerts }
    \* one record with an icon code the config does not map, or an empty weather list
    \cup UNION { { Snapshot(hl, dl, f, FALSE) : f \in Flaws(hl, dl) } :
                 hl \in 0..MaxHourly, dl \in 0..MaxDaily }
    \cup { WithAlerts(Snapshot(MaxHourly, MaxDaily, f, FALSE), 1) :
             f \in Flaws(MaxHourly, MaxDaily) }
    \* records that already carry icon, desc and timestamp keys
    \cup { WithAlerts(Snapshot(hl, MaxDaily, [at |-> "none"], TRUE), 1) : hl \in {5, MaxHourly} }
    \* keys missing
    \cup { [lat |-> "50.11", lon |-> "8.68"],
           [current |-> CurrentRecord("none", FALSE)],
           [current |-> CurrentRecord("none", FALSE),
            hourly |-> <<HourRecord(0, "none", FALSE)>>],
           SetItem(Snapshot(4, 2, [at |-> "none"], FALSE), "alerts",
                   <<AlertRecord(1), [start |-> 1700000000, description |-> "Frost."]>>),
           SetItem(Snapshot(4, 2, [at |-> "none"], FALSE), "alerts",
                   <<[end |-> 1700000000, description |-> "Frost."]>>),
           SetItem(Snapshot(4, 2, [at |-> "none"], FALSE), "alerts",
                   <<[start |-> 1700000000, end |-> 1700003600]>>),
           [cod |-> 401, message |-> "Invalid API key."] }

\* what requests.get can return
Responses ==
    { [status |-> 200, body |-> [kind |-> "json", value |-> s]] : s \in Snapshots }
    \cup { [status |-> 502, body |-> [kind |-> "html"]] }

(***************************************************************************)
(* Initial state: the interpreter has started, nothing has run.            *)
(***************************************************************************)
Init ==
    /\ pc = "join"
    /\ err = None
    /\ environ \in Environs
    /\ tz \in TimeZones
    /\ config_file = <<>>
    /\ fh = None
    /\ config = None
    /\ params = None
    /\ requests = 0
    /\ response = None
    /\ x = None
    /\ icons = None
    /\ text = <<>>
    /\ tooltip = <<>>
    /\ i = 0
    /\ stdout = <<>>
    /\ fdeg = 0
    /\ ftemp = 0
    /\ fwind = <<>>
    /\ fwind360 = <<>>
    /\ fout = <<>>

\* an exception nobody catches: the interpreter prints a traceback to stderr and exits
Raise(exc, line) ==
    /\ pc' = "fatal"
    /\ err' = [exc |-> exc, line |-> line]

(***************************************************************************)
(* Module top level.                                                       *)
(***************************************************************************)
\* os.environ.get returns None for an unset variable, and os.path.join(None, ...) raises
JoinPath ==
    /\ pc = "join"
    /\ IF HasKey(environ, "XDG_CONFIG_HOME")
       THEN /\ config_file' = <<environ["XDG_CONFIG_HOME"], "/",
                                "waybar/modules/custom-weather-openweathermap.toml">>
            /\ pc' = "open"
            /\ UNCHANGED err
       ELSE /\ Raise("TypeError", 11)
            /\ UNCHANGED config_file
    /\ UNCHANGED <<environ, tz, fh, config, params, requests, response, x, icons,
                   text, tooltip, i, stdout, fmtVars>>

OpenConfig ==
    /\ pc = "open"
    /\ \E f \in Files :
         IF f.kind = "missing"
         THEN Raise("FileNotFoundError", 16) /\ UNCHANGED fh
         ELSE fh' = f /\ pc' = "load" /\ UNCHANGED err
    /\ UNCHANGED <<environ, tz, config_file, config, params, requests, response, x,
                   icons, text, tooltip, i, stdout, fmtVars>>

LoadConfig ==
    /\ pc = "load"
    /\ IF fh.kind = "toml"
       THEN config' = fh.doc /\ pc' = "params" /\ UNCHANGED err
       ELSE Raise("TOMLDecodeError", 17) /\ UNCHANGED config
    /\ UNCHANGED <<environ, tz, config_file, fh, params, requests, response, x,
                   icons, text, tooltip, i, stdout, fmtVars>>

BuildParams ==
    /\ pc = "params"
    /\ IF ~HasKey(config, "general") \/ ~HasKey(config.general, "apikey")
       THEN Raise("KeyError", 20) /\ UNCHANGED params
       ELSE IF ~HasKey(config.general, "lang")
       THEN Raise("KeyError", 21) /\ UNCHANGED params
       ELSE IF ~HasKey(config, "location") \/ ~HasKey(config.location, "lat")
       THEN Raise("KeyError", 22) /\ UNCHANGED params
       ELSE IF ~HasKey(config.location, "lon")
       THEN Raise("KeyError", 23) /\ UNCHANGED params
       ELSE /\ params' = [appid |-> config.general.apikey,
                          lang  |-> config.general.lang,
                          lat   |-> config.location.lat,
                          lon   |-> config.location.lon]
            /\ pc' = "get"
            /\ UNCHANGED err
    /\ UNCHANGED <<environ, tz, config_file, fh, config, requests, response, x,
                   icons, text, tooltip, i, stdout, fmtVars>>

\* a GET that is issued again when the transport fails
HttpGet_retry ==
    /\ pc = "get"
    /\ \/ \E r \in Responses :
            /\ requests' = requests + 1
            /\ response' = r
            /\ pc' = "json"
            /\ UNCHANGED err
       \/ /\ requests' = requests + 2
          /\ Raise("ConnectionError", 27)
          /\ UNCHANGED response
    /\ UNCHANGED <<environ, tz, config_file, fh, config, params, x, icons, text,
                   tooltip, i, stdout, fmtVars>>

\* requests.get: one request, answered or failed in transport
HttpGet ==
    /\ pc = "get"
    /\ requests' = requests + 1
    /\ \/ \E r \in Responses :
            /\ response' = r
            /\ pc' = "json"
            /\ UNCHANGED err
       \/ /\ Raise("ConnectionError", 27)
          /\ UNCHANGED response
    /\ UNCHANGED <<environ, tz, config_file, fh, config, params, x, icons, text,
                   tooltip, i, stdout, fmtVars>>

\* response.json(), whatever the status code
DecodeJson ==
    /\ pc = "json"
    /\ IF response.body.kind = "json"
       THEN x' = response.body.value /\ pc' = "icons" /\ UNCHANGED err
       ELSE Raise("JSONDecodeError", 32) /\ UNCHANGED x
    /\ UNCHANGED <<environ, tz, config_file, fh, config, params, requests, response,
                   icons, text, tooltip, i, stdout, fmtVars>>

LoadIcons ==
    /\ pc = "icons"
    /\ IF HasKey(config, "icons")
       THEN icons' = config.icons /\ pc' = "main" /\ UNCHANGED err
       ELSE Raise("KeyError", 36) /\ UNCHANGED icons
    /\ UNCHANGED <<environ, tz, config_file, fh, config, params, requests, response,
                   x, text, tooltip, i, stdout, fmtVars>>

(***************************************************************************)
(* main(): the pieces of the tooltip.  A "\n".join((l1, ..., ln, "")) is   *)
(* the lines l1 .. ln, each followed by a newline.                         *)
(***************************************************************************)
\* icons.get(code, ""): a lookup that falls back to a blank glyph
icons_get(code) ==
    [ok |-> TRUE, v |-> IF code \in DOMAIN icons THEN icons[code] ELSE ""]

\* icons[code]: the glyph, or a KeyError
icons_getitem(code) ==
    IF code \in DOMAIN icons THEN [ok |-> TRUE, v |-> icons[code]]
    ELSE [ok |-> FALSE, v |-> ""]

\* the same, taking the condition out of the weather list with pop(0)
Annotate_pop(r) ==
    SetItem(SetItem(SetItem(r, "icon", r.weather[1].icon),
                    "desc", r.weather[1].description),
            "weather", Tail(r.weather))

\* rec["icon"] = rec["weather"][0]["icon"]; rec["desc"] = rec["weather"][0]["description"]
Annotate(r) ==
    SetItem(SetItem(r, "icon", r.weather[1].icon), "desc", r.weather[1].description)

\* rec["weather"][0] exists
HasCondition(r) == HasKey(r, "weather") /\ Len(r.weather) >= 1

\* line 179: the warning sign U+26A0 U+FE0F between two spaces
Warning == " [U+26A0][U+FE0F] "

NowBlock(cur, glyph) ==
    << <<"<b>Now</b>">>,
       <<"---">>,
       <<>>,
       <<glyph, " (", cur.desc, ")">>,
       <<>>,
       <<"Wind:  ">> \o ljust(format_wind_direction(cur.wind_deg), 3) \o <<" ">>
           \o str(round(cur.wind_speed)) \o <<" m/s">>,
       <<"Feels: ">> \o format_temp(cur.feels_like),
       <<"Humid: ">> \o str(cur.humidity) \o <<"%">>,
       <<"UV:    ">> \o str(cur.uvi),
       <<>> >>

HourLine(hour, glyph) ==
    strftime_HM(localtime(hour.dt)) \o <<" | ">> \o center(format_temp(hour.temp), 4)
        \o <<" | ">> \o <<glyph, " (", hour.desc, ")">>

DayBlock(day, glyph) ==
    << <<"<b>">> \o strftime_a(localtime(day.dt)) \o <<"</b>">>,
       <<"---">>,
       <<>>,
       <<glyph, " (", day.desc, ")">>,
       <<>>,
       <<"Wind:  ">> \o ljust(format_wind_direction(day.wind_deg), 3) \o <<" ">>
           \o str(round(day.wind_speed)) \o <<" m/s">>,
       <<"Temp:  ">> \o format_temp(day.temp.min) \o <<" to ">> \o format_temp(day.temp.max),
       <<"Humid: ">> \o str(day.humidity) \o <<"%">>,
       <<"UV:    ">> \o str(day.uvi),
       <<>> >>

AlertsHeader == << <<"<b>Alerts</b>">>, <<"---">>, <<>> >>

AlertBlock(alert) ==
    << <<"<i>">> \o strftime_HMa(localtime(alert.start)) \o <<"</i> - <i>">>
           \o strftime_HMa(localtime(alert.end)) \o <<"</i>">>,
       <<"-">>,
       <<>>,
       <<alert.description>>,
       <<>> >>

FooterLine(cur) == <<"<small>last update: ">> \o cur.timestamp \o <<"</small>">>

\* the hourly loop's filter without the +12h limit
HourSkip_nolimit(j) == j < 1 \/ j % 3 # 0

\* line 122: if i < 1 or i % 3 or i > 12: continue
HourSkip(j) == j < 1 \/ j % 3 # 0 \/ j > 12

\* the daily loop's filter taking today as well
DaySkip_today(j) == j >= 4

\* line 143: if i < 1 or i >= 4: continue
DaySkip(j) == j < 1 \/ j >= 4

(***************************************************************************)
(* sys_output                                                              *)
(***************************************************************************)
IsBlank(l) == \A k \in 1..Len(l) : l[k] = " "

RECURSIVE rstrip(_)
rstrip(l) == IF l # <<>> /\ l[Len(l)] = " " THEN rstrip(SubSeq(l, 1, Len(l) - 1)) ELSE l

RECURSIVE lstrip(_)
lstrip(l) == IF l # <<>> /\ l[1] = " " THEN lstrip(Tail(l)) ELSE l

RECURSIVE rstripLines(_)
rstripLines(ls) ==
    IF ls = <<>> THEN <<>>
    ELSE IF IsBlank(ls[Len(ls)]) THEN rstripLines(SubSeq(ls, 1, Len(ls) - 1))
    ELSE [ls EXCEPT ![Len(ls)] = rstrip(ls[Len(ls)])]

RECURSIVE lstripLines(_)
lstripLines(ls) ==
    IF ls = <<>> THEN <<>>
    ELSE IF IsBlank(ls[1]) THEN lstripLines(Tail(ls))
    ELSE [ls EXCEPT ![1] = lstrip(ls[1])]

\* tooltip.strip(): the lines left, the last one without its newline
strip(ls) == lstripLines(rstripLines(ls))

\* json.dumps escapes what is not ASCII
JsonEscape(tok) ==
    IF tok = "°" THEN "\\u00b0"
    ELSE IF tok = Warning THEN " \\u26a0\\ufe0f "
    ELSE tok

EscapeAll(l) == [k \in 1..Len(l) |-> JsonEscape(l[k])]

RECURSIVE JoinLines(_)
JoinLines(ls) ==
    IF ls = <<>> THEN <<>>
    ELSE IF Len(ls) = 1 THEN EscapeAll(ls[1])
    ELSE EscapeAll(ls[1]) \o <<"\\n">> \o JoinLines(Tail(ls))

\* json.dumps({"text": t, "tooltip": ls})
json_dumps(t, ls) ==
    <<"{\"text\": \"">> \o EscapeAll(t) \o <<"\", \"tooltip\": \"">>
        \o JoinLines(ls) \o <<"\"}">>

(***************************************************************************)
(* main()                                                                  *)
(***************************************************************************)
\* lines 87-116: the current record, text and the Now block
MainCurrent ==
    /\ pc = "main"
    /\ IF ~HasKey(x, "current")
       THEN Raise("KeyError", 87) /\ UNCHANGED <<x, text, tooltip>>
       ELSE IF ~HasCondition(x.current)
       THEN Raise("IndexError", 89) /\ UNCHANGED <<x, text, tooltip>>
       ELSE LET current == SetItem(Annotate(x.current), "timestamp",
                                   strftime_T(localtime(x.current.dt)))
                glyph == icons_getitem(current.icon)
            IN  /\ x' = [x EXCEPT !.current = current]
                /\ IF glyph.ok
                   THEN /\ text' = <<glyph.v, " ">> \o format_temp(current.temp)
                        /\ tooltip' = NowBlock(current, glyph.v)
                        /\ pc' = "hourly"
                        /\ UNCHANGED err
                   ELSE /\ Raise("KeyError", 99)
                        /\ UNCHANGED <<text, tooltip>>
    /\ i' = 0
    /\ UNCHANGED <<environ, tz, config_file, fh, config, params, requests, response,
                   icons, stdout, fmtVars>>

\* lines 118-137: one iteration of the hourly loop
HourlyNext ==
    /\ pc = "hourly"
    /\ IF ~HasKey(x, "hourly")
       THEN Raise("KeyError", 118) /\ UNCHANGED <<x, tooltip, i>>
       ELSE /\ i < Len(x.hourly)
            /\ IF HourSkip(i)
               THEN i' = i + 1 /\ UNCHANGED <<pc, err, x, tooltip>>
               ELSE IF ~HasCondition(x.hourly[i + 1])
               THEN Raise("IndexError", 125) /\ UNCHANGED <<x, tooltip, i>>
               ELSE LET hour == Annotate(x.hourly[i + 1])
                        glyph == icons_getitem(hour.icon)
                    IN  /\ x' = [x EXCEPT !.hourly[i + 1] = hour]
                        /\ IF glyph.ok
                           THEN /\ tooltip' = Append(tooltip, HourLine(hour, glyph.v))
                                /\ i' = i + 1
                                /\ UNCHANGED <<pc, err>>
                           ELSE /\ Raise("KeyError", 134)
                                /\ UNCHANGED <<tooltip, i>>
    /\ UNCHANGED <<environ, tz, config_file, fh, config, params, requests, response,
                   icons, text, stdout, fmtVars>>

\* the hourly loop ends; line 139: tooltip += "\n"
HourlyDone ==
    /\ pc = "hourly"
    /\ HasKey(x, "hourly")
    /\ i >= Len(x.hourly)
    /\ tooltip' = Append(tooltip, <<>>)
    /\ pc' = "daily"
    /\ i' = 0
    /\ UNCHANGED <<err, environ, tz, config_file, fh, config, params, requests,
                   response, x, icons, text, stdout, fmtVars>>

\* lines 141-175: one iteration of the daily loop
DailyNext ==
    /\ pc = "daily"
    /\ IF ~HasKey(x, "daily")
       THEN Raise("KeyError", 141) /\ UNCHANGED <<x, tooltip, i>>
       ELSE /\ i < Len(x.daily)
            /\ IF DaySkip(i)
               THEN i' = i + 1 /\ UNCHANGED <<pc, err, x, tooltip>>
               ELSE IF ~HasCondition(x.daily[i + 1])
               THEN Raise("IndexError", 146) /\ UNCHANGED <<x, tooltip, i>>
               ELSE LET day == Annotate(x.daily[i + 1])
                        glyph == icons_getitem(day.icon)
                    IN  /\ x' = [x EXCEPT !.daily[i + 1] = day]
                        /\ IF glyph.ok
                           THEN /\ tooltip' = tooltip \o DayBlock(day, glyph.v)
                                /\ i' = i + 1
                                /\ UNCHANGED <<pc, err>>
                           ELSE /\ Raise("KeyError", 166)
                                /\ UNCHANGED <<tooltip, i>>
    /\ UNCHANGED <<environ, tz, config_file, fh, config, params, requests, response,
                   icons, text, stdout, fmtVars>>

\* the daily loop ends
DailyDone ==
    /\ pc = "daily"
    /\ HasKey(x, "daily")
    /\ i >= Len(x.daily)
    /\ pc' = "alerts"
    /\ i' = 0
    /\ UNCHANGED <<err, environ, tz, config_file, fh, config, params, requests,
                   response, x, icons, text, tooltip, stdout, fmtVars>>

\* lines 177-189: if "alerts" in x
AlertsBranch ==
    /\ pc = "alerts"
    /\ IF HasKey(x, "alerts")
       THEN /\ text' = text \o <<Warning>>
            /\ tooltip' = tooltip \o AlertsHeader
            /\ pc' = "alert"
       ELSE /\ pc' = "footer"
            /\ UNCHANGED <<text, tooltip>>
    /\ i' = 0
    /\ UNCHANGED <<err, environ, tz, config_file, fh, config, params, requests,
                   response, x, icons, stdout, fmtVars>>

\* lines 191-205: one iteration of the alerts loop, or its end
AlertNext ==
    /\ pc = "alert"
    /\ IF i >= Len(x.alerts)
       THEN pc' = "footer" /\ UNCHANGED <<err, tooltip, i>>
       ELSE LET alert == x.alerts[i + 1]
            IN  IF ~HasKey(alert, "start")
                THEN Raise("KeyError", 193) /\ UNCHANGED <<tooltip, i>>
                ELSE IF ~HasKey(alert, "end")
                THEN Raise("KeyError", 194) /\ UNCHANGED <<tooltip, i>>
                ELSE IF ~HasKey(alert, "description")
                THEN Raise("KeyError", 201) /\ UNCHANGED <<tooltip, i>>
                ELSE /\ tooltip' = tooltip \o AlertBlock(alert)
                     /\ i' = i + 1
                     /\ UNCHANGED <<pc, err>>
    /\ UNCHANGED <<environ, tz, config_file, fh, config, params, requests, response,
                   x, icons, text, stdout, fmtVars>>

\* the footer put in front of the tooltip
Footer_first ==
    /\ pc = "footer"
    /\ tooltip' = <<FooterLine(x.current)>> \o tooltip
    /\ pc' = "output"
    /\ UNCHANGED <<err, environ, tz, config_file, fh, config, params, requests,
                   response, x, icons, text, i, stdout, fmtVars>>

\* line 207
Footer ==
    /\ pc = "footer"
    /\ tooltip' = Append(tooltip, FooterLine(x.current))
    /\ pc' = "output"
    /\ UNCHANGED <<err, environ, tz, config_file, fh, config, params, requests,
                   response, x, icons, text, i, stdout, fmtVars>>

\* sys_output called a first time as soon as the Now block is there
SysOutput_early ==
    /\ \/ /\ pc = "output"
          /\ pc' = "done"
       \/ /\ pc = "hourly"
          /\ i = 0
          /\ stdout = <<>>
          /\ UNCHANGED pc
    /\ stdout' = Append(stdout, json_dumps(text, strip(tooltip)))
    /\ UNCHANGED <<err, environ, tz, config_file, fh, config, params, requests,
                   response, x, icons, text, tooltip, i, fmtVars>>

\* line 209 and sys_output, lines 73-79: one write, then the script ends
SysOutput ==
    /\ pc = "output"
    /\ stdout' = Append(stdout, json_dumps(text, strip(tooltip)))
    /\ pc' = "done"
    /\ UNCHANGED <<err, environ, tz, config_file, fh, config, params, requests,
                   response, x, icons, text, tooltip, i, fmtVars>>

Next ==
    \/ JoinPath
    \/ OpenConfig
    \/ LoadConfig
    \/ BuildParams
    \/ HttpGet
    \/ DecodeJson
    \/ LoadIcons
    \/ MainCurrent
    \/ HourlyNext
    \/ HourlyDone
    \/ DailyNext
    \/ DailyDone
    \/ AlertsBranch
    \/ AlertNext
    \/ Footer
    \/ SysOutput

Spec == Init /\ [][Next]_vars

(***************************************************************************)
(* The formatters on their own: one call with an argument of the caller's  *)
(* choice.                                                                 *)
(***************************************************************************)
\* angles in quarter degrees, one turn below zero to MaxTurn turns above 360: the
\* sector borders (multiples of 11.25), their neighbours, and every 20 degrees
DegInputs ==
    { q \in (0 - 1440)..(1440 * (MaxTurn + 1)) : q % 45 \in {0, 1, 44} \/ q % 80 = 0 }

\* temperatures in 1/100 K: 0 K, 273.15 K, 300 K and, around every whole degree Celsius up
\* to MaxCelsius, the values 0.01, 0.5 and 0.99 away from it.  float(t) - 273.15 is
\* a binary floating point difference: where the exact difference is a whole number
\* other than 0 the float may fall on either side of it, and those are left out.
TempInputs ==
    { 0, 27315, 30000 }
    \cup { 27315 + 100 * d + o : d \in (0 - MaxCelsius)..MaxCelsius,
                                 o \in {0 - 99, 0 - 50, 0 - 1, 1, 50, 99} }

InitFmt ==
    /\ Init
    /\ environ = ("HOME" :> "/home/u")
    /\ tz = 3600

ApplyWindDirection ==
    /\ fwind = <<>>
    /\ fout = <<>>
    /\ \E d \in DegInputs :
         /\ fdeg' = d
         /\ fwind' = format_wind_direction(d)
         /\ fwind360' = format_wind_direction(d + 1440)
    /\ UNCHANGED <<ftemp, fout, progVars>>

ApplyTemp ==
    /\ fwind = <<>>
    /\ fout = <<>>
    /\ \E k \in TempInputs :
         /\ ftemp' = k
         /\ fout' = format_temp(k)
    /\ UNCHANGED <<fdeg, fwind, fwind360, progVars>>

NextFmt == ApplyWindDirection \/ ApplyTemp

SpecFmt == InitFmt /\ [][NextFmt]_vars

(***************************************************************************)
(* Properties.                                                             *)
(***************************************************************************)
Terminal == pc \in {"done", "fatal"}

\* the answer as it was fetched (x is the same dict, after main wrote to it)
Fetched == response.body.value

\* how often v occurs in the sequence s
Occurs(s, v) == Cardinality({k \in 1..Len(s) : s[k] = v})

SelectedHours == {3, 6, 9, 12}

SelectedDays == {1, 2, 3}

\* the glyph and the lines main is to produce for a fetched record
GlyphOf(r) == icons[r.weather[1].icon]

\* the hourly lines for the selected indices below n, in ascending order
RECURSIVE ExpectedHours(_, _)
ExpectedHours(recs, n) ==
    IF n = 0 THEN <<>>
    ELSE ExpectedHours(recs, n - 1)
         \o (IF (n - 1) \in SelectedHours
             THEN <<HourLine(Annotate(recs[n]), GlyphOf(recs[n]))>>
             ELSE <<>>)

\* the daily blocks for the selected indices below n, in ascending order
RECURSIVE ExpectedDays(_, _)
ExpectedDays(recs, n) ==
    IF n = 0 THEN <<>>
    ELSE ExpectedDays(recs, n - 1)
         \o (IF (n - 1) \in SelectedDays
             THEN DayBlock(Annotate(recs[n]), GlyphOf(recs[n]))
             ELSE <<>>)

RECURSIVE ExpectedAlerts(_, _)
ExpectedAlerts(recs, n) ==
    IF n = 0 THEN <<>>
    ELSE ExpectedAlerts(recs, n - 1) \o AlertBlock(recs[n])

IsHourLine(l) == \E k \in 1..Len(l) : l[k] = " | "

IsDayLine(l) == l # <<>> /\ l[1] \in {"<b>", "Temp:  "}

IsFooterLine(l) == l # <<>> /\ l[1] = "<small>last update: "

IsAlertLine(l) == l # <<>> /\ l[1] = "<i>"

Min(a, b) == IF a <= b THEN a ELSE b

\* the header and the temperature line of each expected daily block
DayLinesOf(blocks) == SelectSeq(blocks, IsDayLine)

\* C1: nothing is on standard output before the script has finished; a run that
\* ended in an unhandled exception has written nothing, and a run that finished
\* has made exactly one write, the complete JSON object.
C1_NoOutputUnlessDone ==
    /\ pc # "done" => stdout = <<>>
    /\ pc = "fatal" => err # None /\ stdout = <<>>
    /\ pc = "done" => err = None /\ stdout = <<json_dumps(text, strip(tooltip))>>

\* C1 witness: a run that failed in the alerts loop, after text and most of the
\* tooltip were built, and wrote nothing.
C1_Witness ==
    /\ pc = "fatal"
    /\ err.line = 194
    /\ Len(tooltip) > Len(AlertsHeader)
    /\ text # <<>>
    /\ stdout = <<>>

\* C2: at most one GET is ever issued; none before the config file was opened and
\* parsed and the parameters were read from it; exactly one in every run that got
\* past that (whether it then succeeds or fails); none when the run failed on the
\* environment variable, the file or its keys.
C2_OneGetAfterConfig ==
    /\ requests <= 1
    /\ requests = 1 => fh # None /\ fh.kind = "toml" /\ config = fh.doc /\ params # None
    /\ pc \in {"join", "open", "load", "params", "get"} => requests = 0
    /\ pc \in {"json", "icons", "main", "hourly", "daily", "alerts", "alert",
               "footer", "output", "done"} => requests = 1
    /\ pc = "fatal" /\ err.line >= 27 => requests = 1
    /\ pc = "fatal" /\ err.line <= 23 => requests = 0

\* C2 witness: the transport failed; one request was issued and the run is over.
C2_Witness ==
    /\ pc = "fatal"
    /\ err.exc = "ConnectionError"
    /\ requests = 1

\* C3 (as claimed): in a finished run the warning glyph is in text, and the Alerts
\* header in the tooltip, if and only if the answer holds at least one alert record;
\* with exactly one record there is one glyph and one entry.
C3_GlyphIffAlertRecord ==
    pc = "done" =>
        LET n == IF HasKey(Fetched, "alerts") THEN Len(Fetched.alerts) ELSE 0
        IN  /\ Occurs(text, Warning) >= 1 <=> n >= 1
            /\ Occurs(tooltip, <<"<b>Alerts</b>">>) >= 1 <=> n >= 1
            /\ n = 1 => /\ Occurs(text, Warning) = 1
                        /\ Len(SelectSeq(tooltip, IsAlertLine)) = 1
                        /\ SelectSeq(tooltip, IsAlertLine)[1] = AlertBlock(Fetched.alerts[1])[1]

\* C4: while the hourly loop runs, the hourly lines in the tooltip are those of the
\* indices in {3, 6, 9, 12} below the loop index, in ascending order; once the loop
\* is over they are those of {3, 6, 9, 12} within the list, at most four.
C4_HourlySelection ==
    /\ pc = "hourly" /\ HasKey(x, "hourly") =>
           SelectSeq(tooltip, IsHourLine)
               = ExpectedHours(Fetched.hourly, Min(i, Len(Fetched.hourly)))
    /\ pc \in {"daily", "alerts", "alert", "footer", "output", "done"} =>
           /\ SelectSeq(tooltip, IsHourLine)
                  = ExpectedHours(Fetched.hourly, Len(Fetched.hourly))
           /\ Len(SelectSeq(tooltip, IsHourLine))
                  = Cardinality(SelectedHours \cap (0..(Len(Fetched.hourly) - 1)))
           /\ Len(SelectSeq(tooltip, IsHourLine)) <= 4

\* C4 witness: a finished run over a list with an index beyond 12 that is a
\* multiple of 3, with four hourly lines.
C4_Witness ==
    /\ pc = "done"
    /\ Len(x.hourly) >= 16
    /\ Len(SelectSeq(tooltip, IsHourLine)) = 4

\* C5: while the daily loop runs, the daily blocks in the tooltip are those of the
\* indices in {1, 2, 3} below the loop index, in ascending order; once the loop is
\* over they are those of {1, 2, 3} within the list.
C5_DailySelection ==
    /\ pc = "daily" /\ HasKey(x, "daily") =>
           SelectSeq(tooltip, IsDayLine)
               = DayLinesOf(ExpectedDays(Fetched.daily, Min(i, Len(Fetched.daily))))
    /\ pc \in {"alerts", "alert", "footer", "output", "done"} =>
           /\ SelectSeq(tooltip, IsDayLine)
                  = DayLinesOf(ExpectedDays(Fetched.daily, Len(Fetched.daily)))
           /\ Len(SelectSeq(tooltip, IsDayLine))
                  = 2 * Cardinality(SelectedDays \cap (0..(Len(Fetched.daily) - 1)))

\* C5 witness: a finished run over five days: three blocks, today and the fifth
\* day left out.
C5_Witness ==
    /\ pc = "done"
    /\ Len(x.daily) >= 5
    /\ Len(SelectSeq(tooltip, IsDayLine)) = 6

\* round(deg / 22.5) with halves rounded up, deg4 in quarter degrees
RoundHalfUp(deg4) == (deg4 + 45) \div 90

\* C6 (as claimed): the result is cardinal[round(d / 22.5) mod 16] with halves
\* rounded up, one of the 16 strings, and the same for d and d + 360, for every
\* degree value d.
C6_WindDirectionPeriodic ==
    fwind # <<>> =>
        /\ \E k \in 1..16 : fwind = cardinal[k]
        /\ fwind = cardinal[(RoundHalfUp(fdeg) % 16) + 1]
        /\ fwind360 = fwind

\* C6 for angles that are not negative: there int() truncates as round-half-up does.
C6_NonNegativeDegrees ==
    fwind # <<>> /\ fdeg >= 0 =>
        /\ \E k \in 1..16 : fwind = cardinal[k]
        /\ fwind = cardinal[(RoundHalfUp(fdeg) % 16) + 1]
        /\ fwind360 = fwind
        /\ fdeg = 0 => fwind = <<"N">>
        /\ fdeg = 90 => fwind = <<"N", "N", "E">>
        /\ fdeg = 720 => fwind = <<"S">>
        /\ fdeg = 1440 => fwind = <<"N">>

\* C7: the result is the Celsius value truncated toward zero, then the degree sign,
\* then spaces up to a width of 4: its length is the larger of 4 and the length of
\* number and sign, so never below 4 and never cut.
C7_FormatTemp ==
    fout # <<>> =>
        LET c == ftemp - 27315
        IN  \E n \in (0 - 274)..(MaxCelsius + 2) :
                /\ c >= 0 => 100 * n <= c /\ c < 100 * (n + 1)
                /\ c < 0 => 100 * (n - 1) < c /\ c <= 100 * n
                /\ Len(fout) = Max(4, Len(str(n)) + 1)
                /\ SubSeq(fout, 1, Len(str(n)) + 1) = str(n) \o <<"°">>
                /\ \A k \in (Len(str(n)) + 2)..Len(fout) : fout[k] = " "
                /\ ftemp = 30000 => fout = <<"2", "6", "°", " ">>
                /\ ftemp = 27315 => fout = <<"0", "°", " ", " ">>

\* C7 witness: a temperature between -1 and 0 Celsius, formatted as 0.
C7_Witness ==
    /\ fout = <<"0", "°", " ", " ">>
    /\ ftemp < 27315
    /\ ftemp > 27315 - 100

\* the fetched record has a condition whose icon code the config does not map
Unmapped(r) == HasCondition(r) /\ r.weather[1].icon \notin DOMAIN icons

\* a run that got as far as rendering a well-shaped answer
Rendering ==
    /\ Terminal
    /\ icons # None
    /\ x # None
    /\ HasKey(Fetched, "current") /\ HasKey(Fetched, "hourly") /\ HasKey(Fetched, "daily")

\* C8 (as claimed): if any record of the answer, current, hourly or daily, has an
\* icon code without a glyph, the run ends fatally and writes nothing.
C8_AnyUnmappedIsFatal ==
    Rendering /\ ( \/ Unmapped(Fetched.current)
                   \/ \E n \in 1..Len(Fetched.hourly) : Unmapped(Fetched.hourly[n])
                   \/ \E n \in 1..Len(Fetched.daily) : Unmapped(Fetched.daily[n]) )
        => pc = "fatal" /\ stdout = <<>>

\* C8 (amended): if a record that main renders (current, hourly 3, 6, 9, 12, daily
\* 1, 2, 3) has an icon code without a glyph, the run ends fatally, no later than at
\* that record's lookup, and writes nothing; a finished run shows the mapped glyph.
C8_RenderedUnmappedIsFatal ==
    /\ Rendering /\ Unmapped(Fetched.current)
           => pc = "fatal" /\ err.line <= 99 /\ stdout = <<>>
    /\ Rendering /\ (\E n \in 1..Len(Fetched.hourly) :
                         (n - 1) \in SelectedHours /\ Unmapped(Fetched.hourly[n]))
           => pc = "fatal" /\ err.line <= 134 /\ stdout = <<>>
    /\ Rendering /\ (\E n \in 1..Len(Fetched.daily) :
                         (n - 1) \in SelectedDays /\ Unmapped(Fetched.daily[n]))
           => pc = "fatal" /\ err.line <= 166 /\ stdout = <<>>
    /\ pc = "done" => text[1] = GlyphOf(Fetched.current) /\ text[1] # ""

\* C8 witness: the lookup failed for a daily record, after the hourly lines were
\* rendered.
C8_Witness ==
    /\ pc = "fatal"
    /\ err = [exc |-> "KeyError", line |-> 166]
    /\ Len(SelectSeq(tooltip, IsHourLine)) >= 1
    /\ stdout = <<>>

\* the whole tooltip for the fetched answer
ExpectedTooltip ==
    NowBlock(SetItem(Annotate(Fetched.current), "timestamp",
                     strftime_T(localtime(Fetched.current.dt))),
             GlyphOf(Fetched.current))
    \o ExpectedHours(Fetched.hourly, Len(Fetched.hourly))
    \o << <<>> >>
    \o ExpectedDays(Fetched.daily, Len(Fetched.daily))
    \o (IF HasKey(Fetched, "alerts")
        THEN AlertsHeader \o ExpectedAlerts(Fetched.alerts, Len(Fetched.alerts))
        ELSE <<>>)
    \o << <<"<small>last update: ">>
            \o strftime_T(localtime(Fetched.current.dt)) \o <<"</small>">> >>

\* C9: once the footer is appended the tooltip is the Now block, the selected hourly
\* lines, the selected daily blocks, the Alerts header with one entry per alert in
\* list order when there is an alerts list, and the footer; the footer is there
\* once, it is the last line, and it carries the local time of the current dt.
C9_TooltipOrder ==
    pc \in {"output", "done"} =>
        /\ tooltip = ExpectedTooltip
        /\ Len(SelectSeq(tooltip, IsFooterLine)) = 1
        /\ IsFooterLine(tooltip[Len(tooltip)])
        /\ tooltip[1] = <<"<b>Now</b>">>

\* C9 witness: a finished run with hourly lines, daily blocks and two alerts.
C9_Witness ==
    /\ pc = "done"
    /\ Len(x.hourly) >= 4
    /\ Len(x.daily) >= 2
    /\ HasKey(x, "alerts")
    /\ Len(x.alerts) = 2

\* C10 (as claimed): after decoding, the snapshot keeps the keys and values it was
\* fetched with, and the config stays as loaded.
C10_SnapshotUntouched ==
    /\ x # None => x = Fetched
    /\ config # None => config = fh.doc

\* new is old with at most the keys in w added or overwritten
OnlyWrites(old, new, w) ==
    /\ DOMAIN old \subseteq DOMAIN new
    /\ (DOMAIN new) \ (DOMAIN old) \subseteq w
    /\ \A k \in (DOMAIN old) \ w : new[k] = old[k]

\* C10 (amended): main writes only the keys icon, desc and timestamp of the current
\* record and the keys icon and desc of the hourly and daily records it renders;
\* every other key of these records, every other record, the alerts and the other
\* top-level keys keep their fetched values, and config, icons and params stay as
\* loaded.
C10_OnlyAnnotations ==
    /\ x # None =>
         /\ DOMAIN x = DOMAIN Fetched
         /\ \A k \in (DOMAIN x) \ {"current", "hourly", "daily"} : x[k] = Fetched[k]
         /\ HasKey(x, "current") =>
                OnlyWrites(Fetched.current, x.current, {"icon", "desc", "timestamp"})
         /\ HasKey(x, "hourly") =>
                /\ Len(x.hourly) = Len(Fetched.hourly)
                /\ \A n \in 1..Len(x.hourly) :
                       IF (n - 1) \in SelectedHours
                       THEN OnlyWrites(Fetched.hourly[n], x.hourly[n], {"icon", "desc"})
                       ELSE x.hourly[n] = Fetched.hourly[n]
         /\ HasKey(x, "daily") =>
                /\ Len(x.daily) = Len(Fetched.daily)
                /\ \A n \in 1..Len(x.daily) :
                       IF (n - 1) \in SelectedDays
                       THEN OnlyWrites(Fetched.daily[n], x.daily[n], {"icon", "desc"})
                       ELSE x.daily[n] = Fetched.daily[n]
    /\ config # None => config = fh.doc
    /\ icons # None => icons = fh.doc.icons
    /\ params # None => params.appid = fh.doc.general.apikey

\* C10 witness: a finished run in which a rendered hourly record gained a key.
C10_Witness ==
    /\ pc = "done"
    /\ Len(x.hourly) >= 4
    /\ HasKey(x.hourly[4], "icon")
    /\ ~HasKey(Fetched.hourly[4], "icon")

====
